---- MODULE Spec2Model ----
(***************************************************************************)
(* Cribbage hand counter (cribPart.js): the scorer scoreHand and its five  *)
(* rule evaluators, modelled as operators that compute what the JavaScript *)
(* computes, and the calls a caller can make as actions.                   *)
(*                                                                         *)
(* A card is the record [rank |-> r, suit |-> s]; the suits are written    *)
(* "S", "H", "D", "C" for the spade, heart, diamond and club glyphs.       *)
(* Sequences are 1-based: cards[1..4] are the hand cards (indices 0-3 of   *)
(* the source) and cards[5] is the cut card (index 4).                     *)
(***************************************************************************)
EXTENDS Integers, Sequences, FiniteSets, TLC

VARIABLES cards, isCrib, called, result

vars == <<cards, isCrib, called, result>>

(***************************************************************************)
(* Values of the JavaScript run time.                                      *)
(***************************************************************************)
\* null: an empty slot, and the sentinel scoreHand returns.
Null == [absent |-> TRUE]

\* undefined: a read past the end of an array.
Undefined == [undefined |-> TRUE]

\* The cards argument when the caller passes none (or null): written as a
\* one-slot tuple holding undefined, which no array of cards and nulls equals.
Missing == <<Undefined>>

\* A call that ended in a TypeError (a property read of null or undefined).
TypeError == [thrown |-> "TypeError"]

\* No call has been made yet.
NoResult == [pending |-> TRUE]

\* parseInt of a string that is no number.
NaN == [nan |-> TRUE]

Falsy(v) == v = Null \/ v = Undefined

(***************************************************************************)
(* The deck.                                                               *)
(***************************************************************************)
RANKS == <<"A", "2", "3", "4", "5", "6", "7", "8", "9", "10", "J", "Q", "K">>

SUITS == <<"S", "H", "D", "C">>

Card(r, s) == [rank |-> r, suit |-> s]

\* RANKS.forEach(rank => SUITS.forEach(suit => DECK.push({rank, suit})))
DECK ==
    [k \in 1..(Len(RANKS) * Len(SUITS)) |->
        Card(RANKS[((k - 1) \div Len(SUITS)) + 1], SUITS[((k - 1) % Len(SUITS)) + 1])]

ParseInt(s) ==
    CASE s = "2" -> 2 [] s = "3" -> 3 [] s = "4" -> 4 [] s = "5" -> 5
      [] s = "6" -> 6 [] s = "7" -> 7 [] s = "8" -> 8 [] s = "9" -> 9
      [] s = "10" -> 10 [] OTHER -> NaN

\* Mutant: a Jack counts 11.
getCardValue_JackEleven(card) ==
    IF card.rank = "A" THEN 1
    ELSE IF card.rank = "J" THEN 11
    ELSE IF card.rank \in {"Q", "K"} THEN 10
    ELSE ParseInt(card.rank)

getCardValue(card) ==
    IF card.rank = "A" THEN 1
    ELSE IF card.rank \in {"J", "Q", "K"} THEN 10
    ELSE ParseInt(card.rank)

formatCard(card) ==
    IF Falsy(card) THEN "" ELSE card.rank \o card.suit

getNumericRank(card) ==
    IF card.rank = "A" THEN 1
    ELSE IF card.rank = "J" THEN 11
    ELSE IF card.rank = "Q" THEN 12
    ELSE IF card.rank = "K" THEN 13
    ELSE ParseInt(card.rank)

(***************************************************************************)
(* scoreFifteens                                                           *)
(***************************************************************************)
\* mask & (1 << i), for the 0-based bit i
BitSet(mask, i) == (mask \div (2 ^ i)) % 2 = 1

\* The sum the inner loop "for (i = 0; i < n; i++)" leaves for every mask
\* over the first k cards: entry mask + 1 is the sum of values[i + 1] over the
\* bits i of the mask.  The masks with bit k - 1 set are those without it
\* (the table for k - 1) plus 2^(k-1), and their sums are larger by values[k].
RECURSIVE MaskSums(_, _)
MaskSums(values, k) ==
    IF k = 0 THEN <<0>>
    ELSE LET lower == MaskSums(values, k - 1)
         IN  lower \o [j \in DOMAIN lower |-> lower[j] + values[k]]

\* combo.map(formatCard): the cards the mask selects, in hand order
Combo(cs, mask) ==
    LET pos == SelectSeq([i \in 1..Len(cs) |-> i], LAMBDA i : BitSet(mask, i - 1))
    IN  [k \in DOMAIN pos |-> formatCard(cs[pos[k]])]

\* Mutant: the outer loop stops one mask early, "mask < (1 << n) - 1".
FifteenMasks_SkipsAllCards(cs) ==
    LET values == [i \in 1..Len(cs) |-> getCardValue(cs[i])]
        sums == MaskSums(values, Len(cs))
    IN  SelectSeq([m \in 1..((2 ^ Len(cs)) - 2) |-> m],
                  LAMBDA m : sums[m + 1] = 15)

\* The outer loop "for (mask = 1; mask < (1 << n); mask++)": the masks whose
\* sum is 15, in increasing order.
FifteenMasks(cs) ==
    LET values == [i \in 1..Len(cs) |-> getCardValue(cs[i])]
        sums == MaskSums(values, Len(cs))
    IN  SelectSeq([m \in 1..((2 ^ Len(cs)) - 1) |-> m],
                  LAMBDA m : sums[m + 1] = 15)

\* Every slot is selected by some mask (1 << i is among them), and
\* getCardValue reads the rank of the slot: an empty slot throws.
scoreFifteens(cs) ==
    IF cs = Missing THEN TypeError
    ELSE IF \E i \in DOMAIN cs : Falsy(cs[i]) THEN TypeError
    ELSE
        LET masks == FifteenMasks(cs)
        IN  [points |-> 2 * Len(masks),
             combinations |-> [k \in DOMAIN masks |-> Combo(cs, masks[k])]]

(***************************************************************************)
(* scorePairs                                                              *)
(***************************************************************************)
\* rankCounts[rank] after the forEach over the cards
RankCount(cs, r) == Cardinality({i \in DOMAIN cs : cs[i].rank = r})

\* A property key that is a canonical array index ("2" .. "10" here):
\* Object.entries lists such keys first, in ascending numeric order, and then
\* the other keys in the order they were inserted.
IsIndexKey(r) == r \in {"2", "3", "4", "5", "6", "7", "8", "9", "10"}

FirstOfRank(cs, i) == \A j \in 1..(i - 1) : cs[j].rank # cs[i].rank

RankEntries(cs) ==
    LET indexKeys == SelectSeq(RANKS, LAMBDA r : IsIndexKey(r) /\ RankCount(cs, r) > 0)
        otherAt == SelectSeq([i \in 1..Len(cs) |-> i],
                       LAMBDA i : ~IsIndexKey(cs[i].rank) /\ FirstOfRank(cs, i))
    IN  indexKeys \o [k \in DOMAIN otherAt |-> cs[otherAt[k]].rank]

\* Mutant: 2 points for each card past the first of a rank.
pairPoints_PerExtraCard(count) ==
    IF count >= 2 /\ count <= 4 THEN 2 * (count - 1) ELSE 0

\* The points of one entry: the if / else-if chain on count.
pairPoints(count) ==
    IF count = 2 THEN 2
    ELSE IF count = 3 THEN 6
    ELSE IF count = 4 THEN 12
    ELSE 0

\* The labels of one entry, as pushed onto pairs.
pairLabels(rank, count) ==
    IF count = 2 THEN <<"Pair of " \o rank \o "s">>
    ELSE IF count = 3 THEN <<"Three " \o rank \o "s">>
    ELSE IF count = 4 THEN <<"Four " \o rank \o "s">>
    ELSE <<>>

\* The forEach over Object.entries(rankCounts); acc is {points, pairs} so far.
RECURSIVE PairsLoop(_, _, _)
PairsLoop(cs, entries, acc) ==
    IF entries = <<>> THEN acc
    ELSE
        LET rank == Head(entries)
            count == RankCount(cs, rank)
        IN  PairsLoop(cs, Tail(entries),
                [points |-> acc.points + pairPoints(count),
                 pairs |-> acc.pairs \o pairLabels(rank, count)])

scorePairs(cs) ==
    IF cs = Missing THEN TypeError
    ELSE IF \E i \in DOMAIN cs : Falsy(cs[i]) THEN TypeError
    ELSE PairsLoop(cs, RankEntries(cs), [points |-> 0, pairs |-> <<>>])

(***************************************************************************)
(* scoreRuns                                                               *)
(***************************************************************************)
\* rankGroups[rank]: the cards of one numeric rank, in hand order
\* Mutant: a rank group keeps only its first card.
RankGroup_FirstCardOnly(cs, rank) ==
    SubSeq(SelectSeq(cs, LAMBDA c : getNumericRank(c) = rank), 1, 1)

RankGroup(cs, rank) == SelectSeq(cs, LAMBDA c : getNumericRank(c) = rank)

\* Object.keys(rankGroups).map(Number).sort((a, b) => a - b)
SortedRanks(cs) ==
    SelectSeq([r \in 1..Len(RANKS) |-> r],
              LAMBDA r : \E i \in DOMAIN cs : getNumericRank(cs[i]) = r)

\* The loop "for (i = 0; i <= ranks.length - len; i++)" with its test
\* ranks[i + len - 1] === ranks[i] + len - 1: the 1-based starts that pass.
RunStarts(ranks, len) ==
    {i \in 1..(Len(ranks) - len + 1) : ranks[i + len - 1] = ranks[i] + len - 1}

Min(S) == CHOOSE x \in S : \A y \in S : x <= y

RECURSIVE GroupProduct(_, _)
GroupProduct(cs, runRanks) ==
    IF runRanks = <<>> THEN 1
    ELSE Len(RankGroup(cs, Head(runRanks))) * GroupProduct(cs, Tail(runRanks))

\* Mutant: the multiplier is never multiplied by the group sizes.
RunOfLength_NoMultiplier(cs, ranks, len) ==
    LET i == Min(RunStarts(ranks, len))
    IN  [length |-> len, multiplier |-> 1, ranks |-> SubSeq(ranks, i, i + len - 1)]

\* bestRun as one of the three blocks leaves it: only the first passing start
\* is kept, because the guard "len > bestLength" fails afterwards.
RunOfLength(cs, ranks, len) ==
    LET i == Min(RunStarts(ranks, len))
        runRanks == SubSeq(ranks, i, i + len - 1)
    IN  [length |-> len, multiplier |-> GroupProduct(cs, runRanks), ranks |-> runRanks]

\* Mutant: the blocks run shortest first, so a run of 3 is kept although a
\* longer one exists.
bestRunOf_ShortestFirst(cs) ==
    LET ranks == SortedRanks(cs)
    IN  IF Len(ranks) >= 3 /\ RunStarts(ranks, 3) # {} THEN RunOfLength(cs, ranks, 3)
        ELSE Null

\* The three blocks, longest first; a block is skipped once a run is found.
bestRunOf(cs) ==
    LET ranks == SortedRanks(cs)
    IN  IF Len(ranks) >= 5 /\ RunStarts(ranks, 5) # {} THEN RunOfLength(cs, ranks, 5)
        ELSE IF Len(ranks) >= 4 /\ RunStarts(ranks, 4) # {} THEN RunOfLength(cs, ranks, 4)
        ELSE IF Len(ranks) >= 3 /\ RunStarts(ranks, 3) # {} THEN RunOfLength(cs, ranks, 3)
        ELSE Null

RECURSIVE RunCards(_, _)
RunCards(cs, runRanks) ==
    IF runRanks = <<>> THEN <<>>
    ELSE RankGroup(cs, Head(runRanks)) \o RunCards(cs, Tail(runRanks))

scoreRuns(cs) ==
    IF cs = Missing THEN TypeError
    ELSE IF Len(cs) < 3 THEN [points |-> 0, runs |-> <<>>]
    ELSE IF \E i \in DOMAIN cs : Falsy(cs[i]) THEN TypeError
    ELSE
        LET bestRun == bestRunOf(cs)
        IN  IF bestRun = Null THEN [points |-> 0, runs |-> <<>>]
            ELSE
                LET runCards == RunCards(cs, bestRun.ranks)
                IN  [points |-> bestRun.length * bestRun.multiplier,
                     runs |-> <<[length |-> bestRun.length,
                                 multiplier |-> bestRun.multiplier,
                                 cards |-> [k \in DOMAIN runCards |->
                                               formatCard(runCards[k])]]>>]

(***************************************************************************)
(* scoreFlush                                                              *)
(***************************************************************************)
\* cards[4]: undefined when the array is shorter
cutCardOf(cs) == IF Len(cs) >= 5 THEN cs[5] ELSE Undefined

\* handCards.every(card => card.suit === firstSuit) stops at the first card
\* that fails the test; reaching an empty slot before that throws.
HandStops(cs, firstSuit) ==
    {i \in 1..4 : Falsy(cs[i]) \/ cs[i].suit # firstSuit}

\* Mutant: the crib branch is missing, a crib scores like a hand.
scoreFlush_IgnoresCrib(cs, crib) ==
    IF cs = Missing THEN TypeError
    ELSE IF Len(cs) < 4 THEN [points |-> 0]
    ELSE IF Falsy(cs[1]) THEN TypeError
    ELSE
        LET cutCard == cutCardOf(cs)
            firstSuit == cs[1].suit
            stops == HandStops(cs, firstSuit)
        IN  IF stops # {}
            THEN IF Falsy(cs[Min(stops)]) THEN TypeError ELSE [points |-> 0]
            ELSE IF ~Falsy(cutCard) /\ cutCard.suit = firstSuit
                 THEN [points |-> 5]
                 ELSE [points |-> 4]

scoreFlush(cs, crib) ==
    IF cs = Missing THEN TypeError
    ELSE IF Len(cs) < 4 THEN [points |-> 0]
    ELSE IF Falsy(cs[1]) THEN TypeError
    ELSE
        LET cutCard == cutCardOf(cs)
            firstSuit == cs[1].suit
            stops == HandStops(cs, firstSuit)
        IN  IF stops # {}
            THEN IF Falsy(cs[Min(stops)]) THEN TypeError ELSE [points |-> 0]
            ELSE IF crib
            THEN IF ~Falsy(cutCard) /\ cutCard.suit = firstSuit
                 THEN [points |-> 5]
                 ELSE [points |-> 0]
            ELSE IF ~Falsy(cutCard) /\ cutCard.suit = firstSuit
                 THEN [points |-> 5]
                 ELSE [points |-> 4]

(***************************************************************************)
(* scoreNobs                                                               *)
(***************************************************************************)
\* handCards.find(card => card.rank === 'J') stops at the first Jack;
\* reaching an empty slot before that throws.
FindStops(cs) == {i \in 1..4 : Falsy(cs[i]) \/ cs[i].rank = "J"}

scoreNobs(cs) ==
    IF cs = Missing THEN TypeError
    ELSE IF Len(cs) < 5 THEN [points |-> 0]
    ELSE IF Falsy(cs[5]) THEN [points |-> 0]
    ELSE
        LET cutCard == cs[5]
            stops == FindStops(cs)
        IN  IF stops = {} THEN [points |-> 0]
            ELSE
                LET jackInHand == cs[Min(stops)]
                IN  IF Falsy(jackInHand) THEN TypeError
                    ELSE IF jackInHand.suit = cutCard.suit
                    THEN [points |-> 1, card |-> formatCard(jackInHand)]
                    ELSE [points |-> 0]

(***************************************************************************)
(* scoreHand                                                               *)
(***************************************************************************)
\* !cards || cards.length !== 5 || cards.some(c => !c)
InvalidHand(cs) ==
    cs = Missing \/ Len(cs) # 5 \/ \E i \in DOMAIN cs : Falsy(cs[i])

\* The five evaluators on the same cards, and their sum.
ScoreReport(cs, crib) ==
    LET fifteens == scoreFifteens(cs)
        pairs == scorePairs(cs)
        runs == scoreRuns(cs)
        flush == scoreFlush(cs, crib)
        nobs == scoreNobs(cs)
    IN  IF TypeError \in {fifteens, pairs, runs, flush, nobs} THEN TypeError
        ELSE [total |-> fifteens.points + pairs.points + runs.points
                        + flush.points + nobs.points,
              fifteens |-> fifteens,
              pairs |-> pairs,
              runs |-> runs,
              flush |-> flush,
              nobs |-> nobs]

\* Mutant: the guard without cards.some(c => !c).
scoreHand_NoSlotCheck(cs, crib) ==
    IF cs = Missing \/ Len(cs) # 5 THEN Null ELSE ScoreReport(cs, crib)

\* Mutant: the total leaves nobs.points out.
scoreHand_TotalOmitsNobs(cs, crib) ==
    IF InvalidHand(cs) THEN Null
    ELSE LET r == ScoreReport(cs, crib)
         IN  [r EXCEPT !.total = r.total - r.nobs.points]

scoreHand(cs, crib) ==
    IF InvalidHand(cs) THEN Null ELSE ScoreReport(cs, crib)

(***************************************************************************)
(* The inputs the scorer is called with.                                   *)
(***************************************************************************)
\* Hands are dealt from the first DeckSize cards of DealOrder: the cards of
\* the self-test hands of runTests, a second Jack, and the low and high
\* spades that make runs of five and the King-Ace break.
DeckSize == 13

DealOrder ==
    <<Card("J", "C"), Card("5", "S"), Card("3", "S"), Card("3", "H"),
      Card("4", "S"), Card("6", "S"), Card("J", "S"), Card("5", "H"),
      Card("5", "D"), Card("5", "C"), Card("2", "S"), Card("A", "S"),
      Card("K", "S"), Card("3", "D"), Card("K", "H"), Card("Q", "S"),
      Card("10", "H"), Card("7", "D"), Card("8", "C"), Card("9", "H")>>

\* The first n cards of DealOrder; each is a card of DECK.
Dealt(n) == {DealOrder[k] : k \in 1..n} \cap {DECK[k] : k \in DOMAIN DECK}

\* Five pairwise-distinct cards: positions 1-4 the hand, position 5 the cut.
Hands ==
    {h \in [1..5 -> Dealt(DeckSize)] : \A i, j \in 1..5 : i # j => h[i] # h[j]}

\* Arguments of any shape: missing, or an array of up to MaxLen slots, each
\* empty or one of the first ArgDeckSize cards.
ArgDeckSize == 2

MaxLen == 6

Args ==
    {Missing} \cup
    UNION {[1..n -> Dealt(ArgDeckSize) \cup {Null}] : n \in 0..MaxLen}

(***************************************************************************)
(* The calls.                                                              *)
(***************************************************************************)
Returns(fn, crib, value) ==
    /\ called = "none"
    /\ called' = fn
    /\ isCrib' = crib
    /\ result' = value
    /\ UNCHANGED cards

\* scoreHand(cards, isCrib): isCrib defaults to false
CallScoreHand == \E crib \in BOOLEAN : Returns("scoreHand", crib, scoreHand(cards, crib))

CallScoreFifteens == Returns("scoreFifteens", isCrib, scoreFifteens(cards))

CallScorePairs == Returns("scorePairs", isCrib, scorePairs(cards))

CallScoreRuns == Returns("scoreRuns", isCrib, scoreRuns(cards))

CallScoreFlush == \E crib \in BOOLEAN : Returns("scoreFlush", crib, scoreFlush(cards, crib))

CallScoreNobs == Returns("scoreNobs", isCrib, scoreNobs(cards))

Idle ==
    /\ isCrib = FALSE
    /\ called = "none"
    /\ result = NoResult

\* A caller that respects the hand invariant and calls the scorer.
Init == cards \in Hands /\ Idle

Next == CallScoreHand

Spec == Init /\ [][Next]_vars

\* A caller that respects the hand invariant and calls the evaluators.
NextEval ==
    \/ CallScoreFifteens
    \/ CallScorePairs
    \/ CallScoreRuns
    \/ CallScoreFlush
    \/ CallScoreNobs

SpecEval == Init /\ [][NextEval]_vars

\* A caller that passes anything to the scorer or to one of its evaluators.
InitArgs == cards \in Args /\ Idle

NextArgs ==
    \/ CallScoreHand
    \/ CallScoreFifteens
    \/ CallScorePairs
    \/ CallScoreRuns
    \/ CallScoreFlush
    \/ CallScoreNobs

SpecArgs == InitArgs /\ [][NextArgs]_vars

(***************************************************************************)
(* The card picker: selectedCards is the variable cards, the mode radio is *)
(* isCrib, and called / result record whether the last handler's           *)
(* updateScore invoked scoreHand and what it returned.                     *)
(***************************************************************************)
\* The deck cards the user clicks are the first UIDeckSize cards of
\* UIDealOrder: the "triple run" hand of runTests first.
UIDeckSize == 7

UIDealOrder ==
    <<Card("3", "S"), Card("3", "H"), Card("3", "D"), Card("4", "S"),
      Card("5", "S"), Card("J", "C"), Card("5", "C"), Card("5", "H"),
      Card("5", "D"), Card("6", "S")>>

\* The deck-card elements initializeDeck builds, one per card of DECK.
DeckCardElements ==
    {UIDealOrder[k] : k \in 1..UIDeckSize} \cap {DECK[k] : k \in DOMAIN DECK}

\* let selectedCards = [null, null, null, null, null]
NoCards == [i \in 1..5 |-> Null]

\* new Set(selectedCards.filter(c => c).map(formatCard))
usedCards(sel) == {formatCard(sel[i]) : i \in {j \in 1..Len(sel) : ~Falsy(sel[j])}}

\* The first empty slot, or the last slot when all are full.
slotIndexFor(sel) ==
    LET empty == {i \in 1..Len(sel) : sel[i] = Null}
    IN  IF empty # {} THEN Min(empty) ELSE Len(sel)

\* Mutant: no card ever counts as already used.
cardUsed_Never(sel, card) == FALSE

\* usedCards.has(cardStr)
cardUsed(sel, card) == formatCard(card) \in usedCards(sel)

\* selectedCards.every(c => c !== null)
allSelected(sel) == \A i \in 1..Len(sel) : sel[i] # Null

\* updateScore: whether scoreHand is invoked on selectedCards, and its result.
updateScore(sel, crib) ==
    IF ~allSelected(sel) THEN [called |-> "none", result |-> NoResult]
    ELSE [called |-> "scoreHand", result |-> scoreHand(sel, crib)]

\* updateSlots(); updateAvailableCards(); updateDisplay() end in updateScore().
Redisplay(sel, crib) ==
    /\ cards' = sel
    /\ isCrib' = crib
    /\ called' = updateScore(sel, crib).called
    /\ result' = updateScore(sel, crib).result

\* A click on a deck card; a used card returns before anything is updated.
HandleCardClick ==
    \E card \in DeckCardElements :
        IF cardUsed(cards, card) THEN UNCHANGED vars
        ELSE Redisplay([cards EXCEPT ![slotIndexFor(cards)] = card], isCrib)

\* The remove button and the slot click exist only for a filled slot.
RemoveCardFromSlot ==
    \E index \in 1..5 :
        /\ ~Falsy(cards[index])
        /\ Redisplay([cards EXCEPT ![index] = Null], isCrib)

Reset == Redisplay(NoCards, isCrib)

\* The change event of the mode radios.
ToggleMode == Redisplay(cards, ~isCrib)

\* DOMContentLoaded: five empty slots, no score computed yet, either radio
\* checked.
InitUI ==
    /\ cards = NoCards
    /\ isCrib \in BOOLEAN
    /\ called = "none"
    /\ result = NoResult

NextUI ==
    \/ HandleCardClick
    \/ RemoveCardFromSlot
    \/ Reset
    \/ ToggleMode

SpecUI == InitUI /\ [][NextUI]_vars

(***************************************************************************)
(* Claims about arguments of any shape (SpecArgs).                         *)
(***************************************************************************)
EmptySlots(cs) == {i \in 1..Len(cs) : cs[i] = Null}

\* C3: scoreHand returns null, raising nothing and computing no total,
\* exactly when cards is missing, has a length other than 5 or holds an empty
\* slot; for 5 present cards it returns a report with a numeric total.
C3_NullExactlyWhenInvalid ==
    called = "scoreHand" =>
        /\ result # TypeError
        /\ result = Null <=>
              (cards = Missing \/ Len(cards) # 5 \/ EmptySlots(cards) # {})
        /\ result # Null => result.total \in Nat

\* C3 witness: a 5-slot hand with an empty slot was refused.
C3_Witness ==
    /\ called = "scoreHand"
    /\ cards # Missing
    /\ Len(cards) = 5
    /\ Cardinality(EmptySlots(cards)) = 1
    /\ result = Null

SubEvaluators ==
    {"scoreFifteens", "scorePairs", "scoreRuns", "scoreFlush", "scoreNobs"}

\* C4: each of the five evaluators, called on a 5-slot hand with one empty
\* slot, returns points 0 and raises nothing.
C4_EvaluatorsTolerateEmptySlot ==
    (/\ called \in SubEvaluators
     /\ cards # Missing
     /\ Len(cards) = 5
     /\ Cardinality(EmptySlots(cards)) = 1)
    => (result # TypeError /\ result.points = 0)

(***************************************************************************)
(* The rules as the specification words them, for hands of 5 present       *)
(* cards: stated over rank positions, suits and subsets, not by the code's *)
(* loops.                                                                  *)
(***************************************************************************)
\* Sequence value: A=1, 2..10 face, J=11, Q=12, K=13 (the place in RANKS).
SequenceValue(card) == CHOOSE k \in 1..Len(RANKS) : RANKS[k] = card.rank

\* Fifteen value: A=1, 2..10 face, J/Q/K=10.
FifteenValue(card) ==
    IF SequenceValue(card) > 10 THEN 10 ELSE SequenceValue(card)

\* How many cards of the hand have the sequence value v.
Held(cs, v) == Cardinality({i \in 1..Len(cs) : SequenceValue(cs[i]) = v})

\* The windows of len consecutive sequence values all present in the hand,
\* named by their lowest value; a window never runs past the King.
Windows(cs, len) ==
    LET held == {SequenceValue(cs[i]) : i \in 1..Len(cs)}
    IN  {a \in 1..(Len(RANKS) - len + 1) : a..(a + len - 1) \subseteq held}

RECURSIVE HeldProduct(_, _, _)
HeldProduct(cs, a, len) ==
    IF len = 0 THEN 1 ELSE Held(cs, a) * HeldProduct(cs, a + 1, len - 1)

\* The length of the longest window of at least 3 values, or 0.
LongestWindow(cs) ==
    IF Windows(cs, 5) # {} THEN 5
    ELSE IF Windows(cs, 4) # {} THEN 4
    ELSE IF Windows(cs, 3) # {} THEN 3
    ELSE 0

\* The number of subsets of the positions i..Len(cs) whose fifteen values
\* sum to target (the empty subset counts for target 0).
RECURSIVE SubsetsSummingTo(_, _, _)
SubsetsSummingTo(cs, i, target) ==
    IF target < 0 THEN 0
    ELSE IF i > Len(cs) THEN (IF target = 0 THEN 1 ELSE 0)
    ELSE SubsetsSummingTo(cs, i + 1, target)
         + SubsetsSummingTo(cs, i + 1, target - FifteenValue(cs[i]))

\* 2 x C(k, 2)
PairPoints(k) == k * (k - 1)

RECURSIVE PairPointsFrom(_, _)
PairPointsFrom(cs, v) ==
    IF v > Len(RANKS) THEN 0 ELSE PairPoints(Held(cs, v)) + PairPointsFrom(cs, v + 1)

HandFlush(cs) == \A i \in 1..4 : cs[i].suit = cs[1].suit

JackOfCutSuit(cs) == \E i \in 1..4 : cs[i].rank = "J" /\ cs[i].suit = cs[5].suit

(***************************************************************************)
(* Claims about the evaluators on hands of 5 distinct cards (SpecEval).    *)
(***************************************************************************)
\* C1: scoreNobs returns points 1 if and only if one of the four hand cards
\* is a Jack of the cut card's suit, and points 0 otherwise.
C1_NobsIffJackOfCutSuit ==
    called = "scoreNobs" =>
        /\ result # TypeError
        /\ result.points = (IF JackOfCutSuit(cards) THEN 1 ELSE 0)

\* C6: scoreRuns returns L x M for the longest window of L >= 3 consecutive
\* sequence values held, M the product of the numbers of cards held at each
\* value of the window, as one run; and 0 with no run when there is none.
C6_RunsLongestWindowTimesProduct ==
    called = "scoreRuns" =>
        LET L == LongestWindow(cards)
        IN  /\ result # TypeError
            /\ L = 0 => (result.points = 0 /\ result.runs = <<>>)
            /\ L > 0 =>
                  /\ Len(result.runs) = 1
                  /\ result.runs[1].length = L
                  /\ \A a \in Windows(cards, L) :
                        /\ result.runs[1].multiplier = HeldProduct(cards, a, L)
                        /\ result.points = L * HeldProduct(cards, a, L)

\* C6 witness: a double run of four scored while windows of three exist too.
C6_Witness ==
    /\ called = "scoreRuns"
    /\ LongestWindow(cards) = 4
    /\ Windows(cards, 3) # {}
    /\ result.points = 8

\* The card of the hand that formats to the text t, and the fifteen values of
\* a list of formatted cards.
CardShown(cs, t) == CHOOSE c \in {cs[i] : i \in 1..Len(cs)} : c.rank \o c.suit = t

RECURSIVE ShownSum(_, _)
ShownSum(cs, combo) ==
    IF combo = <<>> THEN 0
    ELSE FifteenValue(CardShown(cs, Head(combo))) + ShownSum(cs, Tail(combo))

C9_PairsSumOverRanks ==
    called = "scorePairs" =>
        /\ result # TypeError
        /\ result.points = PairPointsFrom(cards, 1)

\* C9 witness: three of one rank and two of another scored 6 + 2.
C9_Witness ==
    /\ called = "scorePairs"
    /\ \E v \in 1..Len(RANKS) : Held(cards, v) = 3
    /\ \E v \in 1..Len(RANKS) : Held(cards, v) = 2
    /\ result.points = 8

(***************************************************************************)
(* Claims about scoreHand on hands of 5 distinct cards (Spec).             *)
(***************************************************************************)
\* The total and the five sub-score point values of a report.
PointsOf(r) ==
    <<r.total, r.fifteens.points, r.pairs.points, r.runs.points,
      r.flush.points, r.nobs.points>>

HandOrders == {p \in [1..4 -> 1..4] : \A i, j \in 1..4 : i # j => p[i] # p[j]}

\* The hand cards in another order, the cut card kept in place.
Reordered(cs, p) == [i \in 1..5 |-> IF i <= 4 THEN cs[p[i]] ELSE cs[5]]

\* C2: permuting the four hand cards, the cut card kept, changes neither the
\* total nor any of the five sub-score point values, in either mode.
C2_HandOrderIrrelevant ==
    called = "scoreHand" =>
        \A p \in HandOrders :
            PointsOf(scoreHand(Reordered(cards, p), isCrib)) = PointsOf(result)

\* C5: the total of the report is the sum of the five sub-score points, and
\* each sub-report is what its evaluator returns on the same 5 cards.
C5_TotalIsSumOfEvaluators ==
    called = "scoreHand" =>
        /\ result # Null
        /\ result # TypeError
        /\ result.fifteens = scoreFifteens(cards)
        /\ result.pairs = scorePairs(cards)
        /\ result.runs = scoreRuns(cards)
        /\ result.flush = scoreFlush(cards, isCrib)
        /\ result.nobs = scoreNobs(cards)
        /\ result.total = result.fifteens.points + result.pairs.points
                          + result.runs.points + result.flush.points
                          + result.nobs.points

\* C5 witness: a report in which fifteens, runs, flush and nobs all scored
\* (a flush with nobs leaves no room for a pair).
C5_Witness ==
    /\ called = "scoreHand"
    /\ result.fifteens.points > 0
    /\ result.runs.points > 0
    /\ result.flush.points = 5
    /\ result.nobs.points = 1
    /\ result.total > 10

\* Scenario B, the "double run" hand of runTests: 3S 3H 4S 5S, cut 6S.
ScenarioB ==
    <<Card("3", "S"), Card("3", "H"), Card("4", "S"), Card("5", "S"), Card("6", "S")>>

ScenarioBScored == called = "scoreHand" /\ cards = ScenarioB /\ ~isCrib

ScenarioA ==
    <<Card("5", "S"), Card("5", "H"), Card("5", "D"), Card("J", "C"),
      Card("5", "C")>>

ScenarioAScored == called = "scoreHand" /\ cards = ScenarioA /\ ~isCrib

ScenarioC ==
    <<Card("3", "S"), Card("3", "H"), Card("3", "D"), Card("4", "S"),
      Card("5", "S")>>

ScenarioCScored == called = "scoreHand" /\ cards = ScenarioC /\ ~isCrib

FilledSlots(sel) == {i \in 1..Len(sel) : sel[i] # Null}

\* C13: after any clicks, removals, resets and mode toggles the filled slots
\* hold pairwise-distinct cards of the deck, and scoreHand has been invoked
\* only with all five slots filled, so it was given 5 distinct cards.
C13_PickerPassesFiveDistinctCards ==
    /\ Len(cards) = 5
    /\ \A i \in FilledSlots(cards) : \E k \in DOMAIN DECK : cards[i] = DECK[k]
    /\ \A i, j \in FilledSlots(cards) : i # j => cards[i] # cards[j]
    /\ called \in {"none", "scoreHand"}
    /\ called = "scoreHand" =>
          (FilledSlots(cards) = 1..5 /\ result # Null /\ result # TypeError)

\* C13 witness: a full selection whose cut card was replaced by a later click
\* (the seventh deck card can only enter a full hand that way) was scored.
C13_Witness ==
    /\ called = "scoreHand"
    /\ FilledSlots(cards) = 1..5
    /\ cards[5] = UIDealOrder[6]
    /\ {cards[i] : i \in 1..4} = {UIDealOrder[k] : k \in 1..4}
    /\ isCrib

====
